---- MODULE Spec2Model ----
(***************************************************************************)
(* lz4mt: the LZ4 frame encoder (lz4mtCompress) and decoder                *)
(* (lz4mtDecompress) of src/lz4mt.cpp, with their block pipelines.         *)
(*                                                                         *)
(* One behaviour is one use of the library: lz4mtCompress runs on a        *)
(* descriptor and an input supplied by the read callback, its result is    *)
(* reported with lz4mtResultToString, and the bytes it wrote (as written,  *)
(* or edited into another stream) are handed to lz4mtDecompress.           *)
(*                                                                         *)
(* The producer (the thread that runs lz4mtCompress / lz4mtDecompress) and *)
(* every block worker (the lambda f) are processes; one action is one      *)
(* stretch of code between two accesses to state the threads share (the    *)
(* result latch, quit, the pools, the futures vector, the output stream,   *)
(* the stream digester).                                                   *)
(***************************************************************************)
EXTENDS Integers, Sequences, FiniteSets, TLC

(***************************************************************************)
(* Bounds of the model.                                                    *)
(***************************************************************************)
\* Most bytes the encoder's read callback supplies in one run.
MaxInputLen == 3
\* Most bytes one call of the encoder's read callback returns.
MaxChunk == 2
\* Number of distinct byte values in the encoder's input (1..NumByteValues).
NumByteValues == 1
\* Lz4Mt::getHardwareConcurrency().
HardwareConcurrency == 2
\* Most write-callback calls that fail in one run.
MaxWriteFailures == 1
\* Largest value of bd.reserved3 a caller passes.
MaxReserved3 == 1

(***************************************************************************)
(* Constants of the program.                                               *)
(***************************************************************************)
LZ4S_MAGICNUMBER == 407708164
LZ4S_MAGICNUMBER_SKIPPABLE_MIN == 407710288
LZ4S_MAGICNUMBER_SKIPPABLE_MAX == 407710303
LZ4S_CHECKSUM_SEED == 0
LZ4S_EOS == 0

(***************************************************************************)
(* 32-bit words.  A uint32_t is held as the int with the same 32 bits (a    *)
(* word with bit 31 set is negative), which is also what the code's int     *)
(* expressions 1 << 31, cSize | cIncompressible and srcBits & ~incompMask   *)
(* hold.  A uint64_t is the pair << low word, high word >>.                 *)
(***************************************************************************)
\* 1 << 31 (cIncompressible, incompMask).
IncompressibleFlag == (-2147483647) - 1

\* The low 31 bits of the word v.
Low31(v) == IF v < 0 THEN (v + 2147483647) + 1 ELSE v

(***************************************************************************)
(* Byte helpers.                                                           *)
(***************************************************************************)
Min(a, b) == IF a < b THEN a ELSE b

\* s[a..b], empty when a > b.
Slice(s, a, b) == IF a > b THEN << >> ELSE SubSeq(s, a, b)

\* The elements of s from index a on.
From(s, a) == Slice(s, a, Len(s))

Bit(c, n) == (c \div (2 ^ n)) % 2

getBlockSize(bdBlockMaximumSize) == 2 ^ (8 + 2 * bdBlockMaximumSize)

getCheckBits_FromXXH(xxh) == (xxh \div 256) % 256

isSkippableMagicNumber(magic) ==
    /\ magic >= LZ4S_MAGICNUMBER_SKIPPABLE_MIN
    /\ magic <= LZ4S_MAGICNUMBER_SKIPPABLE_MAX

flgToChar(flg) ==
      (flg.presetDictionary % 2)
    + (flg.reserved1 % 2) * 2
    + (flg.streamChecksum % 2) * 4
    + (flg.streamSize % 2) * 8
    + (flg.blockChecksum % 2) * 16
    + (flg.blockIndependence % 2) * 32
    + (flg.versionNumber % 4) * 64

charToFlg(c) ==
    [ presetDictionary  |-> Bit(c, 0),
      reserved1         |-> Bit(c, 1),
      streamChecksum    |-> Bit(c, 2),
      streamSize        |-> Bit(c, 3),
      blockChecksum     |-> Bit(c, 4),
      blockIndependence |-> Bit(c, 5),
      versionNumber     |-> (c \div 64) % 4 ]

bdToChar(bd) ==
      (bd.reserved3 % 16)
    + (bd.blockMaximumSize % 8) * 16
    + (bd.reserved2 % 2) * 128

charToBc(c) ==
    [ reserved3        |-> c % 16,
      blockMaximumSize |-> (c \div 16) % 8,
      reserved2        |-> Bit(c, 7) ]

storeU32(v) ==
    LET low == Low31(v)
        top == IF v < 0 THEN 128 ELSE 0
    IN  << low % 256, (low \div 256) % 256, (low \div 65536) % 256,
           (low \div 16777216) + top >>

storeU64(v) == storeU32(v[1]) \o storeU32(v[2])

loadU32(q) ==
    LET low == q[1] + q[2] * 256 + q[3] * 65536 + (q[4] % 128) * 16777216
    IN  IF q[4] >= 128 THEN low + IncompressibleFlag ELSE low

loadU64(q) == << loadU32(q), loadU32(From(q, 5)) >>

(***************************************************************************)
(* The collaborators the library is given: the xxHash32 adapter and the    *)
(* block codec of the context.  Each is a deterministic function of its    *)
(* bytes, and neither is the identity.                                     *)
(***************************************************************************)
\* Lz4Mt::Xxh32::update: the digester's state h after folding bytes into it.
\* The digests of this stand-in for xxHash32 are the words below 2^16.
RECURSIVE Xxh32Update(_, _)
Xxh32Update(h, bytes) ==
    IF bytes = << >> THEN h
    ELSE Xxh32Update((h * 31 + Head(bytes) + 1) % 65536, Tail(bytes))

\* Lz4Mt::Xxh32(ptr, size, seed).digest().
Xxh32(bytes, seed) == Xxh32Update(seed, bytes)

Uniform(s) == \A n \in 1..Len(s) : s[n] = s[1]

\* ctx->compress(src, dst, isize, maxOutputSize): the bytes put into dst, the
\* return value being their number; << >> (return value 0) when src does not
\* shrink.  A run of n >= 2 equal bytes b becomes the one byte 16 * n + b.
CodecCompress(src, maxOutputSize) ==
    IF Len(src) >= 2 /\ Len(src) < 16 /\ Uniform(src) /\ src[1] < 16
       /\ maxOutputSize >= 1
    THEN << 16 * Len(src) + src[1] >>
    ELSE << >>

\* Whether ctx->decompress(src, dst, isize, maxOutputSize) succeeds
\* (a return value >= 0).
CodecValid(src, maxOutputSize) ==
    /\ Len(src) = 1
    /\ src[1] \div 16 >= 2
    /\ src[1] \div 16 <= maxOutputSize

\* The bytes a successful ctx->decompress puts into dst.
CodecDecompress(src) == [n \in 1..(src[1] \div 16) |-> src[1] % 16]

(***************************************************************************)
(* Stream descriptors.                                                     *)
(***************************************************************************)
\* validateStreamDescriptor without its test of bd.reserved3.
validateStreamDescriptorNoReserved3(sd) ==
    IF 1 # sd.flg.versionNumber THEN "INVALID_VERSION"
    ELSE IF 0 # sd.flg.presetDictionary
         THEN "PRESET_DICTIONARY_IS_NOT_SUPPORTED_YET"
    ELSE IF 0 # sd.flg.reserved1 THEN "INVALID_HEADER"
    ELSE IF 0 = sd.flg.blockIndependence
         THEN "BLOCK_DEPENDENCE_IS_NOT_SUPPORTED_YET"
    ELSE IF sd.bd.blockMaximumSize < 4 \/ sd.bd.blockMaximumSize > 7
         THEN "INVALID_BLOCK_MAXIMUM_SIZE"
    ELSE IF 0 # sd.bd.reserved2 THEN "INVALID_HEADER"
    ELSE "OK"

validateStreamDescriptor(sd) ==
    IF 1 # sd.flg.versionNumber THEN "INVALID_VERSION"
    ELSE IF 0 # sd.flg.presetDictionary
         THEN "PRESET_DICTIONARY_IS_NOT_SUPPORTED_YET"
    ELSE IF 0 # sd.flg.reserved1 THEN "INVALID_HEADER"
    ELSE IF 0 = sd.flg.blockIndependence
         THEN "BLOCK_DEPENDENCE_IS_NOT_SUPPORTED_YET"
    ELSE IF sd.bd.blockMaximumSize < 4 \/ sd.bd.blockMaximumSize > 7
         THEN "INVALID_BLOCK_MAXIMUM_SIZE"
    ELSE IF 0 # sd.bd.reserved3 THEN "INVALID_HEADER"
    ELSE IF 0 # sd.bd.reserved2 THEN "INVALID_HEADER"
    ELSE "OK"

lz4mtInitStreamDescriptor ==
    [ flg |-> [ presetDictionary  |-> 0,
                streamChecksum    |-> 1,
                reserved1         |-> 0,
                streamSize        |-> 0,
                blockChecksum     |-> 0,
                blockIndependence |-> 1,
                versionNumber     |-> 1 ],
      bd  |-> [ reserved3 |-> 0, blockMaximumSize |-> 7, reserved2 |-> 0 ],
      streamSize |-> << 0, 0 >>,
      dictId     |-> 0 ]

lz4mtResultToString(result) ==
    CASE result = "OK" -> "OK"
      [] result = "ERROR" -> "ERROR"
      [] result = "INVALID_MAGIC_NUMBER" -> "INVALID_MAGIC_NUMBER"
      [] result = "INVALID_HEADER" -> "INVALID_HEADER"
      [] result = "PRESET_DICTIONARY_IS_NOT_SUPPORTED_YET"
            -> "PRESET_DICTIONARY_IS_NOT_SUPPORTED_YET"
      [] result = "BLOCK_DEPENDENCE_IS_NOT_SUPPORTED_YET"
            -> "BLOCK_DEPENDENCE_IS_NOT_SUPPORTED_YET"
      [] result = "INVALID_VERSION" -> "INVALID_VERSION"
      [] result = "INVALID_HEADER_CHECKSUM" -> "INVALID_HEADER_CHECKSUM"
      [] result = "INVALID_BLOCK_MAXIMUM_SIZE" -> "INVALID_BLOCK_MAXIMUM_SIZE"
      [] result = "CANNOT_WRITE_HEADER" -> "CANNOT_WRITE_HEADER"
      [] result = "CANNOT_WRITE_EOS" -> "CANNOT_WRITE_EOS"
      [] result = "CANNOT_WRITE_STREAM_CHECKSUM" -> "CANNOT_WRITE_STREAM_CHECKSUM"
      [] result = "CANNOT_READ_BLOCK_SIZE" -> "CANNOT_READ_BLOCK_SIZE"
      [] result = "CANNOT_READ_BLOCK_DATA" -> "CANNOT_READ_BLOCK_DATA"
      [] result = "CANNOT_READ_BLOCK_CHECKSUM" -> "CANNOT_READ_BLOCK_CHECKSUM"
      [] result = "CANNOT_READ_STREAM_CHECKSUM" -> "CANNOT_READ_STREAM_CHECKSUM"
      [] result = "STREAM_CHECKSUM_MISMATCH" -> "STREAM_CHECKSUM_MISMATCH"
      [] result = "DECOMPRESS_FAIL" -> "DECOMPRESS_FAIL"
      [] OTHER -> "Unknown code"

(***************************************************************************)
(* State.                                                                  *)
(***************************************************************************)
VARIABLES
    op,         \* the library call in progress: "compress" or "decompress"
    pc,         \* where the producer (the calling thread) is
    mode,       \* ctx->mode: "PARALLEL" or "SEQUENTIAL"
    result,     \* ctx->result, the result latch
    ret,        \* the value the call returned, "none" before it returns
    msg,        \* the text the caller got from lz4mtResultToString, or "none"
    sd,         \* the stream descriptor (*sd)
    chunks,     \* what the encoder's read callback returned, call by call
    din,        \* the decoder's input stream
    pos,        \* the read position in din
    eofKind,    \* readEof: "atEnd" (position at the end) or "feof" (a read hit the end)
    eofFlag,    \* a read of din has hit its end
    out,        \* the bytes the write callback has taken in this call
    wfails,     \* how many write-callback calls have failed
    nRead,      \* calls of the read callback in this call
    nWrite,     \* calls of the write callback in this call
    i,          \* the producer's loop index
    workers,    \* the block tasks dispatched for the current frame, by slot
    futuresCap, \* capacity of the futures vector
    srcAvail,   \* free buffers of srcBufferPool
    dstAvail,   \* free buffers of dstBufferPool
    xxhStream,  \* state of the shared stream digester
    quit,       \* the decoder's quit flag
    cur,        \* the producer's locals for the block being read
    wlog,       \* slot of the worker behind each call of the write callback
                \* made for a block of the current frame
    skipLog,    \* <<magic, size>> of every readSkippable call
    marks,      \* offsets in the encoder's output where a field ends
    edit,       \* how the decoder's input was made from the encoder's output
    raced,      \* the calls in which a worker read the futures vector while it
                \* was reallocated and found a future without a state
    kept,       \* << latch, r >> of the last setResult(r) after quit = true that
                \* found another code latched and left it, << >> if none
    nConcurrency, \* what Lz4Mt::getHardwareConcurrency() returns on this machine
    inputMax    \* most bytes the encoder's read callback supplies in this run

vars == << op, pc, mode, result, ret, msg, sd, chunks, din, pos, eofKind, eofFlag,
           out, wfails, nRead, nWrite, i, workers, futuresCap, srcAvail, dstAvail,
           xxhStream, quit, cur, wlog, skipLog, marks, edit, raced, kept,
           nConcurrency, inputMax >>

\* Variables of the context and its streams.
ctxVars == << mode, result, sd, chunks, din, pos, eofKind, eofFlag, out, wfails,
              nRead, nWrite >>

Modes == { "PARALLEL", "SEQUENTIAL" }

\* Block size ids a caller passes: the ends of the valid range 4..7 and the
\* ids next to them.
BlockSizeIds == { 3, 4, 7, 8 }

\* sd->streamSize of a descriptor with flg.streamSize set.
SomeStreamSize == 258

Descriptors ==
    { [ flg |-> [ presetDictionary  |-> pd,
                  reserved1         |-> r1,
                  streamChecksum    |-> sc,
                  streamSize        |-> ss,
                  blockChecksum     |-> bc,
                  blockIndependence |-> bi,
                  versionNumber     |-> vn ],
        bd  |-> [ reserved3 |-> r3, blockMaximumSize |-> bms, reserved2 |-> r2 ],
        streamSize |-> IF ss = 1 THEN << SomeStreamSize, 0 >> ELSE << 0, 0 >>,
        dictId     |-> 0 ] :
      pd \in 0..1, r1 \in 0..1, sc \in 0..1, ss \in 0..1, bc \in 0..1, bi \in 0..1,
      vn \in 0..3, r3 \in 0..MaxReserved3, bms \in BlockSizeIds, r2 \in 0..1 }

NoCur == [ incompressible |-> FALSE, srcSize |-> 0, src |-> << >> ]

\* A task whose future is ready: it holds no buffer any more.
DoneWorker ==
    [ i |-> 0, pc |-> "done", src |-> << >>, incompressible |-> FALSE,
      blockChecksum |-> 0, data |-> << >>, hash |-> "none", dst |-> FALSE ]

\* The task std::async (or the inline call) starts for one block.
NewWorker(idx, src, incompressible, blockChecksum) ==
    [ i |-> idx, pc |-> "start", src |-> src, incompressible |-> incompressible,
      blockChecksum |-> blockChecksum, data |-> << >>, hash |-> "none",
      dst |-> FALSE ]

\* lz4mtInitContext, with the mode the caller then sets: a call of
\* lz4mtCompress with a mode of modes and a descriptor of descs, on a machine
\* with n hardware threads and an input of at most len bytes.
InitWith(descs, modes, n, len) ==
    /\ op = "compress"
    /\ pc = "c_start"
    /\ mode \in modes
    /\ result = "OK"
    /\ ret = "none"
    /\ msg = "none"
    /\ sd \in descs
    /\ chunks = << >>
    /\ din = << >>
    /\ pos = 0
    /\ eofKind = "atEnd"
    /\ eofFlag = FALSE
    /\ out = << >>
    /\ wfails = 0
    /\ nRead = 0
    /\ nWrite = 0
    /\ i = 0
    /\ workers = << >>
    /\ futuresCap = 0
    /\ srcAvail = 0
    /\ dstAvail = 0
    /\ xxhStream = LZ4S_CHECKSUM_SEED
    /\ quit = FALSE
    /\ cur = NoCur
    /\ wlog = << >>
    /\ skipLog = << >>
    /\ marks = << >>
    /\ edit = << "none", 0 >>
    /\ raced = { }
    /\ kept = << >>
    /\ nConcurrency = n
    /\ inputMax = len

\* Any descriptor and either mode.
Init == InitWith(Descriptors, Modes, HardwareConcurrency, MaxInputLen)

\* The descriptor of lz4mtInitStreamDescriptor with block checksums switched
\* on, parallel mode, one more hardware thread and one more byte of input.
InitWide ==
    InitWith({ [lz4mtInitStreamDescriptor EXCEPT !.flg.blockChecksum = 1] },
             { "PARALLEL" }, HardwareConcurrency + 1, MaxInputLen + 1)

(***************************************************************************)
(* class Context.                                                          *)
(***************************************************************************)
\* Context::error.
error == "OK" # result

\* setResult without its test of the latch: the last code wins.
setResultLastWins(latch, r) == r

\* Context::setResult: the latch after setResult(r) on a latch holding latch.
setResult(latch, r) == IF "OK" = latch \/ "ERROR" = latch THEN r ELSE latch

\* What the write callback may do on its next call: take all the bytes (TRUE)
\* or come back short (FALSE).
WriteOutcomes == IF wfails < MaxWriteFailures THEN BOOLEAN ELSE { TRUE }

\* Context::writeU32 and Context::writeBin, on the bytes they hand to the write
\* callback, with ok the callback's outcome: nothing happens when the latch is
\* not OK; a short write latches ERROR.
CtxWrite(bytes, ok) ==
    IF error
    THEN UNCHANGED << out, result, wfails, nWrite >>
    ELSE /\ nWrite' = nWrite + 1
         /\ out' = IF ok THEN out \o bytes ELSE out
         /\ result' = IF ok THEN result ELSE setResult(result, "ERROR")
         /\ wfails' = IF ok THEN wfails ELSE wfails + 1

\* The outcomes to enumerate for a CtxWrite: one when the callback is not called.
CtxWriteOutcomes == IF error THEN { TRUE } ELSE WriteOutcomes

(***************************************************************************)
(* The pipeline both calls share.                                          *)
(***************************************************************************)
singleThread == mode = "SEQUENTIAL"

nPool == IF singleThread THEN 1 ELSE nConcurrency + 1

\* Capacity of a std::vector after an emplace_back that finds it full.
GrowCapacity(cap) == IF cap = 0 THEN 1 ELSE 2 * cap

Slots == 1..Len(workers)

AllDone == \A k \in Slots : workers[k].pc = "done"

\* The producer is inside futures.emplace_back, moving the futures to a larger
\* array.
Reallocating == pc \in { "c_realloc", "d_realloc" }

\* A return of the worker of slot k that keeps its source buffer out of the
\* pool.
FinishKeepsSource(k) ==
    /\ workers' = [workers EXCEPT ![k] = DoneWorker]
    /\ UNCHANGED srcAvail
    /\ dstAvail' = IF workers[k].dst THEN dstAvail + 1 ELSE dstAvail

\* The worker of slot k returns (or leaves by an exception): its future becomes
\* ready and its buffers go back to their pools.
Finish(k) ==
    /\ workers' = [workers EXCEPT ![k] = DoneWorker]
    /\ srcAvail' = srcAvail + 1
    /\ dstAvail' = IF workers[k].dst THEN dstAvail + 1 ELSE dstAvail

\* Dispatch of one block: f(0, ...) inline in sequential mode; in parallel
\* mode std::async starts the task and futures.emplace_back stores its future,
\* reallocating the vector when it is full.
Dispatch(w, loopPc, reallocPc) ==
    /\ workers' = Append(workers, w)
    /\ i' = i + 1
    /\ IF singleThread
       THEN /\ pc' = loopPc
            /\ UNCHANGED futuresCap
       ELSE IF Len(workers) = futuresCap
            THEN /\ pc' = reallocPc
                 /\ UNCHANGED futuresCap
            ELSE /\ pc' = loopPc
                 /\ UNCHANGED futuresCap

\* futures.emplace_back ends: the vector now uses the larger array.
ReallocEnd(reallocPc, loopPc) ==
    /\ pc = reallocPc
    /\ pc' = loopPc
    /\ futuresCap' = GrowCapacity(futuresCap)
    /\ UNCHANGED << op, ret, msg, i, workers, srcAvail, dstAvail, xxhStream, quit,
                    cur, wlog, skipLog, marks, edit, raced, kept,
                    nConcurrency, inputMax >>
    /\ UNCHANGED ctxVars

\* futures[i-1].wait() by the worker of slot k, then the launch of the stream
\* hash task.  The wait returns once the previous task's future is ready.  A
\* worker that evaluates futures[i-1] while the producer reallocates the vector
\* may find a future whose state was moved away: wait() on it raises
\* std::future_error and the task ends there.
Gate(k) ==
    /\ workers[k].pc = "gate"
    /\ IF workers[k].i > 0 /\ Reallocating
       THEN \E stale \in BOOLEAN :
                IF stale
                THEN /\ Finish(k)
                     /\ raced' = raced \cup { op }
                ELSE /\ workers[k - 1].pc = "done"
                     /\ workers' = [workers EXCEPT ![k].pc = "write",
                                       ![k].hash = IF sd.flg.streamChecksum # 0
                                                   THEN "launched" ELSE "none"]
                     /\ UNCHANGED << srcAvail, dstAvail, raced >>
       ELSE /\ workers[k].i > 0 => workers[k - 1].pc = "done"
            /\ workers' = [workers EXCEPT ![k].pc = "write",
                              ![k].hash = IF sd.flg.streamChecksum # 0
                                          THEN "launched" ELSE "none"]
            /\ UNCHANGED << srcAvail, dstAvail, raced >>
    /\ UNCHANGED << op, pc, ret, msg, i, futuresCap, xxhStream, quit, cur, wlog,
                    skipLog, marks, edit, kept, nConcurrency, inputMax >>
    /\ UNCHANGED ctxVars

\* The stream hash task of slot k, xxhStream.update(ptr, size), run by
\* std::async in a thread of its own (parallel mode).
StreamHash(k) ==
    /\ ~singleThread
    /\ workers[k].hash = "launched"
    /\ xxhStream' = Xxh32Update(xxhStream,
                        IF op = "compress" \/ workers[k].incompressible
                        THEN workers[k].src ELSE workers[k].data)
    /\ workers' = [workers EXCEPT ![k].hash = "done"]
    /\ UNCHANGED << op, pc, ret, msg, i, futuresCap, srcAvail, dstAvail, quit, cur,
                    wlog, skipLog, marks, edit, raced, kept, nConcurrency, inputMax >>
    /\ UNCHANGED ctxVars

\* The digester after futureStreamHash.wait() of slot k: in sequential mode the
\* task is deferred and runs inside the wait.
HashJoined(k) ==
    IF singleThread /\ workers[k].hash = "launched"
    THEN Xxh32Update(xxhStream,
             IF op = "compress" \/ workers[k].incompressible
             THEN workers[k].src ELSE workers[k].data)
    ELSE xxhStream

\* futureStreamHash.wait() of slot k can return.
HashReady(k) == singleThread \/ workers[k].hash # "launched"

(***************************************************************************)
(* lz4mtCompress.                                                          *)
(***************************************************************************)
Flatten(cs) ==
    IF cs = << >> THEN << >>
    ELSE LET F[n \in 1..Len(cs)] == IF n = 1 THEN cs[1] ELSE F[n - 1] \o cs[n]
         IN  F[Len(cs)]

\* The frame header lz4mtCompress builds in d[].
FrameHeader(desc) ==
    LET sumBytes == << flgToChar(desc.flg), bdToChar(desc.bd) >>
                    \o (IF desc.flg.streamSize # 0
                        THEN storeU64(desc.streamSize) ELSE << >>)
                    \o (IF desc.flg.presetDictionary # 0
                        THEN storeU32(desc.dictId) ELSE << >>)
        h == Xxh32(sumBytes, LZ4S_CHECKSUM_SEED)
    IN  storeU32(LZ4S_MAGICNUMBER) \o sumBytes \o << getCheckBits_FromXXH(h) >>

\* Validation and the header: the descriptor is checked, the header is built
\* and handed to the write callback, and the pools are made.
C_Header ==
    /\ op = "compress"
    /\ pc = "c_start"
    /\ LET r == validateStreamDescriptor(sd)
       IN  IF "OK" # r
           THEN /\ result' = setResult(result, r)
                /\ ret' = setResult(result, r)
                /\ pc' = "returned"
                /\ UNCHANGED << out, wfails, nWrite, marks, srcAvail, dstAvail >>
           ELSE \E ok \in WriteOutcomes :
                    /\ nWrite' = nWrite + 1
                    /\ IF ok
                       THEN /\ out' = out \o FrameHeader(sd)
                            /\ marks' = << Len(FrameHeader(sd)) >>
                            /\ srcAvail' = nPool
                            /\ dstAvail' = nPool
                            /\ pc' = "c_loop"
                            /\ UNCHANGED << result, ret, wfails >>
                       ELSE /\ result' = setResult(result, "CANNOT_WRITE_HEADER")
                            /\ ret' = setResult(result, "CANNOT_WRITE_HEADER")
                            /\ wfails' = wfails + 1
                            /\ pc' = "returned"
                            /\ UNCHANGED << out, marks, srcAvail, dstAvail >>
    /\ UNCHANGED << op, mode, msg, sd, chunks, din, pos, eofKind, eofFlag, nRead, i,
                    workers, futuresCap, xxhStream, quit, cur, wlog, skipLog, edit,
                    raced, kept, nConcurrency, inputMax >>

\* What the encoder's read callback may return when asked for dstSize bytes:
\* nothing (the end of the input) or some bytes.
ReadOutcomes(dstSize) ==
    LET most == Min(Min(dstSize, MaxChunk), inputMax - Len(Flatten(chunks)))
    IN  UNION { [1..n -> 1..NumByteValues] : n \in 0..most }

\* One turn of the producer loop: a source buffer is taken from the pool and
\* filled by the read callback; an empty read ends the loop, anything else is
\* dispatched as a block.  In sequential mode the call f(0, ...) of the
\* previous turn has returned.
C_Read ==
    /\ op = "compress"
    /\ pc = "c_loop"
    /\ singleThread => AllDone
    /\ srcAvail > 0
    /\ \E chunk \in ReadOutcomes(getBlockSize(sd.bd.blockMaximumSize)) :
          /\ nRead' = nRead + 1
          /\ IF Len(chunk) = 0
             THEN /\ pc' = "c_drain"
                  /\ UNCHANGED << chunks, srcAvail, workers, i, futuresCap >>
             ELSE /\ chunks' = Append(chunks, chunk)
                  /\ srcAvail' = srcAvail - 1
                  /\ Dispatch(NewWorker(IF singleThread THEN 0 ELSE i, chunk, FALSE, 0),
                              "c_loop", "c_realloc")
    /\ UNCHANGED << op, mode, result, ret, msg, sd, din, pos, eofKind, eofFlag, out,
                    wfails, nWrite, dstAvail, xxhStream, quit, cur, wlog, skipLog,
                    marks, edit, raced, kept, nConcurrency, inputMax >>

C_ReallocEnd == op = "compress" /\ ReallocEnd("c_realloc", "c_loop")

\* for(auto& e : futures) e.wait().
C_Drain ==
    /\ op = "compress"
    /\ pc = "c_drain"
    /\ AllDone
    /\ pc' = "c_eos"
    /\ UNCHANGED << op, ret, msg, i, workers, futuresCap, srcAvail, dstAvail,
                    xxhStream, quit, cur, wlog, skipLog, marks, edit, raced, kept,
                    nConcurrency, inputMax >>
    /\ UNCHANGED ctxVars

\* writeU32(LZ4S_EOS).
C_Eos ==
    /\ op = "compress"
    /\ pc = "c_eos"
    /\ \E ok \in CtxWriteOutcomes :
          /\ CtxWrite(storeU32(LZ4S_EOS), ok)
          /\ IF error \/ ~ok
             THEN /\ ret' = "CANNOT_WRITE_EOS"
                  /\ pc' = "returned"
                  /\ UNCHANGED marks
             ELSE /\ marks' = Append(marks, Len(out) + 4)
                  /\ IF sd.flg.streamChecksum # 0
                     THEN /\ pc' = "c_tail"
                          /\ UNCHANGED ret
                     ELSE /\ pc' = "returned"
                          /\ ret' = "OK"
    /\ UNCHANGED << op, mode, msg, sd, chunks, din, pos, eofKind, eofFlag, nRead, i,
                    workers, futuresCap, srcAvail, dstAvail, xxhStream, quit, cur,
                    wlog, skipLog, edit, raced, kept, nConcurrency, inputMax >>

\* writeU32(xxhStream.digest()).
C_Tail ==
    /\ op = "compress"
    /\ pc = "c_tail"
    /\ \E ok \in CtxWriteOutcomes :
          /\ CtxWrite(storeU32(xxhStream), ok)
          /\ ret' = IF error \/ ~ok THEN "CANNOT_WRITE_STREAM_CHECKSUM" ELSE "OK"
          /\ pc' = "returned"
    /\ UNCHANGED << op, mode, msg, sd, chunks, din, pos, eofKind, eofFlag, nRead, i,
                    workers, futuresCap, srcAvail, dstAvail, xxhStream, quit, cur,
                    wlog, skipLog, marks, edit, raced, kept, nConcurrency, inputMax >>

(***************************************************************************)
(* The worker f of lz4mtCompress, for the block of slot k.                 *)
(***************************************************************************)
\* Entry: a task that finds the latch not OK returns at once.
CW_Entry(k) ==
    /\ op = "compress"
    /\ workers[k].pc = "start"
    /\ IF error
       THEN Finish(k)
       ELSE /\ workers' = [workers EXCEPT ![k].pc = "alloc"]
            /\ UNCHANGED << srcAvail, dstAvail >>
    /\ UNCHANGED << op, pc, ret, msg, i, futuresCap, xxhStream, quit, cur, wlog,
                    skipLog, marks, edit, raced, kept, nConcurrency, inputMax >>
    /\ UNCHANGED ctxVars

\* dstBufferPool.alloc(), ctx->compress with the source size as the output
\* limit, the launch of the block hash, and dst.reset() for a block that did
\* not shrink.
CW_Compress(k) ==
    /\ op = "compress"
    /\ workers[k].pc = "alloc"
    /\ dstAvail > 0
    /\ LET cmp == CodecCompress(workers[k].src, Len(workers[k].src))
           incompressible == Len(cmp) <= 0
       IN  /\ workers' = [workers EXCEPT ![k].pc = "gate",
                             ![k].incompressible = incompressible,
                             ![k].data = cmp,
                             ![k].dst = ~incompressible]
           /\ dstAvail' = IF incompressible THEN dstAvail ELSE dstAvail - 1
    /\ UNCHANGED << op, pc, ret, msg, i, futuresCap, srcAvail, xxhStream, quit, cur,
                    wlog, skipLog, marks, edit, raced, kept, nConcurrency, inputMax >>
    /\ UNCHANGED ctxVars

CW_Gate(k) == op = "compress" /\ Gate(k)

CW_StreamHash(k) == op = "compress" /\ StreamHash(k)

\* The stored bytes of the block of slot k (cPtr, cSize).
Stored(w) == IF w.incompressible THEN w.src ELSE w.data

\* The block size field: cSize, with the incompressible flag for a raw block.
SizeField(w) ==
    IF w.incompressible
    THEN Len(Stored(w)) + IncompressibleFlag
    ELSE Len(Stored(w))

\* The worker's next write call writes bytes; then its position is nextPc.
WorkerWrite(k, bytes, nextPc) ==
    /\ \E ok \in CtxWriteOutcomes :
          /\ CtxWrite(bytes, ok)
          /\ wlog' = IF ~error THEN Append(wlog, k) ELSE wlog
          /\ marks' = IF ~error /\ ok /\ op = "compress"
                      THEN Append(marks, Len(out) + Len(bytes)) ELSE marks
    /\ workers' = [workers EXCEPT ![k].pc = nextPc]
    /\ UNCHANGED << op, pc, mode, ret, msg, sd, chunks, din, pos, eofKind, eofFlag,
                    nRead, i, futuresCap, srcAvail, dstAvail, xxhStream, quit, cur,
                    skipLog, edit, raced, kept, nConcurrency, inputMax >>

\* writeU32(cSize | cIncompressible) or writeU32(cSize).
CW_WriteSize(k) ==
    /\ op = "compress"
    /\ workers[k].pc = "write"
    /\ WorkerWrite(k, storeU32(SizeField(workers[k])), "wbin")

\* writeBin(srcPtr, srcSize) or writeBin(cmpPtr, cmpSize).
CW_WriteBin(k) ==
    /\ op = "compress"
    /\ workers[k].pc = "wbin"
    /\ WorkerWrite(k, Stored(workers[k]),
                   IF sd.flg.blockChecksum # 0 THEN "whash" ELSE "join")

\* writeU32(futureBlockHash.get()).
CW_WriteHash(k) ==
    /\ op = "compress"
    /\ workers[k].pc = "whash"
    /\ WorkerWrite(k, storeU32(Xxh32(Stored(workers[k]), LZ4S_CHECKSUM_SEED)), "join")

\* futureStreamHash.wait() and the return of f.
CW_Join(k) ==
    /\ op = "compress"
    /\ workers[k].pc = "join"
    /\ HashReady(k)
    /\ xxhStream' = HashJoined(k)
    /\ Finish(k)
    /\ UNCHANGED << op, pc, ret, msg, i, futuresCap, quit, cur, wlog, skipLog, marks,
                    edit, raced, kept, nConcurrency, inputMax >>
    /\ UNCHANGED ctxVars

(***************************************************************************)
(* The decoder's input callbacks.                                          *)
(***************************************************************************)
\* Bytes of din not yet read at position p.
Avail(p) == Len(din) - p

\* ctx->read(dst, n) at position p: the bytes it stores.
ReadBytes(p, n) == Slice(din, p + 1, p + Min(n, Avail(p)))

\* ctx->readEof() at position p, flag telling whether a read has hit the end.
ReadEof(p, flag) == IF eofKind = "atEnd" THEN p >= Len(din) ELSE flag

\* ctx->readSkippable(magic, size) at position p succeeds (returns >= 0): the
\* callback has size bytes to pass over.
SkippableOk(p, size) == Avail(p) >= size

(***************************************************************************)
(* lz4mtDecompress.                                                        *)
(***************************************************************************)
\* ctx->setResult(LZ4MT_RESULT_OK) ahead of the frame loop.
D_Start ==
    /\ op = "decompress"
    /\ pc = "d_start"
    /\ result' = setResult(result, "OK")
    /\ pc' = "d_outer"
    /\ UNCHANGED << op, mode, ret, msg, sd, chunks, din, pos, eofKind, eofFlag, out,
                    wfails, nRead, nWrite, i, workers, futuresCap, srcAvail, dstAvail,
                    xxhStream, quit, cur, wlog, skipLog, marks, edit, raced, kept,
                    nConcurrency, inputMax >>

\* The frame loop left (by its condition or by a break): the latch is returned.
FrameExit(res, p, flag, reads, desc) ==
    [ kind |-> "exit", result |-> res, pos |-> p, eofFlag |-> flag, nRead |-> reads,
      sd |-> desc, skip |-> << >> ]

\* The flag and bd bytes were read at position p (after them): validation, the
\* rest of the header and its checksum.
FrameDescriptor(p, reads) ==
    LET flgbd == ReadBytes(p, 2)
        desc1 == [sd EXCEPT !.flg = charToFlg(flgbd[1]), !.bd = charToBc(flgbd[2])]
        r == validateStreamDescriptor(desc1)
        p2 == p + 2
        nExInfo == (IF desc1.flg.streamSize # 0 THEN 8 ELSE 0)
                   + (IF desc1.flg.presetDictionary # 0 THEN 4 ELSE 0) + 1
        ex == ReadBytes(p2, nExInfo)
        desc2 == [desc1 EXCEPT
                     !.streamSize = IF desc1.flg.streamSize # 0
                                    THEN loadU64(ex) ELSE @]
        sumBytes == flgbd \o Slice(ex, 1, nExInfo - 1)
        calHash == getCheckBits_FromXXH(Xxh32(sumBytes, LZ4S_CHECKSUM_SEED))
        srcHash == ex[nExInfo]
    IN  IF "OK" # r
        THEN FrameExit(setResult(result, r), p2, eofFlag, reads + 1, desc1)
        ELSE IF Len(ex) # nExInfo
        THEN FrameExit(setResult(result, "INVALID_HEADER"), p2 + Len(ex), TRUE,
                       reads + 2, desc1)
        ELSE IF srcHash # calHash
        THEN FrameExit(setResult(result, "INVALID_HEADER_CHECKSUM"), p2 + nExInfo,
                       eofFlag, reads + 2, desc2)
        ELSE [ kind |-> "blocks", result |-> result, pos |-> p2 + nExInfo,
               eofFlag |-> eofFlag, nRead |-> reads + 2, sd |-> desc2,
               skip |-> << >> ]

\* One turn of the frame loop, from its condition to the block loop, to the
\* continue after a skippable frame, or to a break.
FrameStep ==
    IF quit \/ error \/ ReadEof(pos, eofFlag)
    THEN FrameExit(result, pos, eofFlag, nRead, sd)
    ELSE IF Avail(pos) < 4
    THEN \* readU32 comes back short and latches ERROR
         [ kind |-> "magic", result |-> setResult(result, "ERROR"),
           pos |-> Len(din), eofFlag |-> TRUE, nRead |-> nRead + 1, sd |-> sd,
           skip |-> << >> ]
    ELSE LET magic == loadU32(ReadBytes(pos, 4))
             p1 == pos + 4
         IN  IF isSkippableMagicNumber(magic)
             THEN IF Avail(p1) < 4
                  THEN FrameExit(setResult(setResult(result, "ERROR"), "INVALID_HEADER"),
                                 Len(din), TRUE, nRead + 2, sd)
                  ELSE LET size == loadU32(ReadBytes(p1, 4))
                       IN  IF ~SkippableOk(p1 + 4, size)
                           THEN [ FrameExit(setResult(result, "INVALID_HEADER"),
                                            Len(din), TRUE, nRead + 2, sd)
                                  EXCEPT !.skip = << << magic, size >> >> ]
                           ELSE [ kind |-> "continue", result |-> result,
                                  pos |-> p1 + 4 + size, eofFlag |-> eofFlag,
                                  nRead |-> nRead + 2, sd |-> sd,
                                  skip |-> << << magic, size >> >> ]
             ELSE IF LZ4S_MAGICNUMBER # magic
             THEN \* readSeek(-4)
                  FrameExit(setResult(result, "INVALID_MAGIC_NUMBER"), pos, FALSE,
                            nRead + 1, sd)
             ELSE IF Avail(p1) < 2
             THEN FrameExit(setResult(result, "INVALID_HEADER"), Len(din), TRUE,
                            nRead + 2, sd)
             ELSE FrameDescriptor(p1, nRead + 1)

D_Frame ==
    /\ op = "decompress"
    /\ pc = "d_outer"
    /\ LET f == FrameStep
       IN  /\ result' = f.result
           /\ pos' = f.pos
           /\ eofFlag' = f.eofFlag
           /\ nRead' = f.nRead
           /\ sd' = f.sd
           /\ skipLog' = skipLog \o f.skip
           /\ IF f.kind = "exit"
              THEN /\ ret' = f.result
                   /\ pc' = "returned"
                   /\ UNCHANGED << i, workers, futuresCap, srcAvail, dstAvail,
                                   xxhStream, wlog >>
              ELSE IF f.kind = "magic"
              THEN /\ pc' = "d_magic"
                   /\ UNCHANGED << ret, i, workers, futuresCap, srcAvail, dstAvail,
                                   xxhStream, wlog >>
              ELSE IF f.kind = "continue"
              THEN /\ pc' = "d_outer"
                   /\ UNCHANGED << ret, i, workers, futuresCap, srcAvail, dstAvail,
                                   xxhStream, wlog >>
              ELSE /\ pc' = "d_block"
                   /\ i' = 0
                   /\ workers' = << >>
                   /\ futuresCap' = 0
                   /\ srcAvail' = nPool
                   /\ dstAvail' = nPool
                   /\ xxhStream' = LZ4S_CHECKSUM_SEED
                   /\ wlog' = << >>
                   /\ UNCHANGED ret
    /\ UNCHANGED << op, mode, msg, chunks, din, eofKind, out, wfails, nWrite, quit,
                    cur, marks, edit, raced, kept, nConcurrency, inputMax >>

\* The magic number could not be read: at the end of the input the latch is
\* set to OK, otherwise to INVALID_HEADER; the frame loop is left and the
\* latch returned.
D_MagicShort ==
    /\ op = "decompress"
    /\ pc = "d_magic"
    /\ result' = IF ReadEof(pos, eofFlag)
                 THEN setResult(result, "OK")
                 ELSE setResult(result, "INVALID_HEADER")
    /\ ret' = result'
    /\ pc' = "returned"
    /\ UNCHANGED << op, mode, msg, sd, chunks, din, pos, eofKind, eofFlag, out,
                    wfails, nRead, nWrite, i, workers, futuresCap, srcAvail, dstAvail,
                    xxhStream, quit, cur, wlog, skipLog, marks, edit, raced, kept,
                    nConcurrency, inputMax >>

\* The condition of the block loop.  In sequential mode the call f(0, ...) of
\* the previous turn has returned.
D_LoopTest ==
    /\ op = "decompress"
    /\ pc = "d_block"
    /\ singleThread => AllDone
    /\ pc' = IF ~quit /\ ~ReadEof(pos, eofFlag) THEN "d_size" ELSE "d_drain"
    /\ UNCHANGED << op, ret, msg, i, workers, futuresCap, srcAvail, dstAvail,
                    xxhStream, quit, cur, wlog, skipLog, marks, edit, raced, kept,
                    nConcurrency, inputMax >>
    /\ UNCHANGED ctxVars

\* readU32 of the block size, the test of the latch after it, and the test
\* for the end-of-stream mark.
D_ReadSize ==
    /\ op = "decompress"
    /\ pc = "d_size"
    /\ IF error
       THEN /\ quit' = TRUE
            /\ pc' = "d_fail_size"
            /\ UNCHANGED << result, pos, eofFlag, nRead, cur >>
       ELSE /\ nRead' = nRead + 1
            /\ IF Avail(pos) < 4
               THEN /\ result' = setResult(result, "ERROR")
                    /\ pos' = Len(din)
                    /\ eofFlag' = TRUE
                    /\ quit' = TRUE
                    /\ pc' = "d_fail_size"
                    /\ UNCHANGED cur
               ELSE LET srcBits == loadU32(ReadBytes(pos, 4))
                    IN  /\ pos' = pos + 4
                        /\ UNCHANGED << result, eofFlag, quit >>
                        /\ IF LZ4S_EOS = srcBits
                           THEN /\ pc' = "d_drain"
                                /\ UNCHANGED cur
                           ELSE /\ pc' = "d_data"
                                /\ cur' = [ incompressible |-> srcBits < 0,
                                            srcSize |-> Low31(srcBits),
                                            src |-> << >> ]
    /\ UNCHANGED << op, mode, ret, msg, sd, chunks, din, eofKind, out, wfails, nWrite,
                    i, workers, futuresCap, srcAvail, dstAvail, xxhStream, wlog,
                    skipLog, marks, edit, raced, kept, nConcurrency, inputMax >>

\* What kept holds after a setResult(code) that follows quit = true.
Kept(code) ==
    IF result \notin { "OK", "ERROR" } /\ code # result
    THEN << result, code >> ELSE kept

\* setResult of a producer that broke out of the block loop after quit = true.
ProducerFail(failPc, code) ==
    /\ op = "decompress"
    /\ pc = failPc
    /\ result' = setResult(result, code)
    /\ kept' = Kept(code)
    /\ pc' = "d_drain"
    /\ UNCHANGED << op, mode, ret, msg, sd, chunks, din, pos, eofKind, eofFlag, out,
                    wfails, nRead, nWrite, i, workers, futuresCap, srcAvail, dstAvail,
                    xxhStream, quit, cur, wlog, skipLog, marks, edit, raced,
                    nConcurrency, inputMax >>

D_FailSize == ProducerFail("d_fail_size", "CANNOT_READ_BLOCK_SIZE")

\* srcBufferPool.alloc(), the read of the block's bytes, and the test after it.
D_ReadData ==
    /\ op = "decompress"
    /\ pc = "d_data"
    /\ srcAvail > 0
    /\ nRead' = nRead + 1
    /\ LET data == ReadBytes(pos, cur.srcSize)
       IN  /\ pos' = pos + Len(data)
           /\ eofFlag' = (eofFlag \/ Len(data) < cur.srcSize)
           /\ IF cur.srcSize # Len(data) \/ error
              THEN /\ quit' = TRUE
                   /\ pc' = "d_fail_data"
                   /\ UNCHANGED << cur, srcAvail >>
              ELSE /\ cur' = [cur EXCEPT !.src = data]
                   /\ srcAvail' = srcAvail - 1
                   /\ pc' = "d_chk"
                   /\ UNCHANGED quit
    /\ UNCHANGED << op, mode, result, ret, msg, sd, chunks, din, eofKind, out, wfails,
                    nWrite, i, workers, futuresCap, dstAvail, xxhStream, wlog, skipLog,
                    marks, edit, raced, kept, nConcurrency, inputMax >>

D_FailData == ProducerFail("d_fail_data", "CANNOT_READ_BLOCK_DATA")

\* The read of the block checksum (when the frame has them), the test of the
\* latch after it, and the dispatch of the block.
D_ReadChk ==
    /\ op = "decompress"
    /\ pc = "d_chk"
    /\ LET want == sd.flg.blockChecksum # 0 /\ ~error
           short == want /\ Avail(pos) < 4
           blockCheckSum == IF want /\ ~short THEN loadU32(ReadBytes(pos, 4)) ELSE 0
       IN  /\ nRead' = IF want THEN nRead + 1 ELSE nRead
           /\ pos' = IF want THEN pos + Min(4, Avail(pos)) ELSE pos
           /\ eofFlag' = (eofFlag \/ short)
           /\ result' = IF short THEN setResult(result, "ERROR") ELSE result
           /\ IF error \/ short
              THEN /\ quit' = TRUE
                   /\ pc' = "d_fail_chk"
                   /\ srcAvail' = srcAvail + 1
                   /\ UNCHANGED << workers, i, futuresCap >>
              ELSE /\ Dispatch(NewWorker(IF singleThread THEN 0 ELSE i, cur.src,
                                         cur.incompressible, blockCheckSum),
                               "d_block", "d_realloc")
                   /\ UNCHANGED << quit, srcAvail >>
    /\ cur' = NoCur
    /\ UNCHANGED << op, mode, ret, msg, sd, chunks, din, eofKind, out, wfails, nWrite,
                    dstAvail, xxhStream, wlog, skipLog, marks, edit, raced, kept,
                    nConcurrency, inputMax >>

D_FailChk == ProducerFail("d_fail_chk", "CANNOT_READ_BLOCK_CHECKSUM")

D_ReallocEnd == op = "decompress" /\ ReallocEnd("d_realloc", "d_block")

\* The block loop left without waiting for the futures.
D_DrainNoWait ==
    /\ op = "decompress"
    /\ pc = "d_drain"
    /\ pc' = "d_tail"
    /\ UNCHANGED << op, ret, msg, i, workers, futuresCap, srcAvail, dstAvail,
                    xxhStream, quit, cur, wlog, skipLog, marks, edit, raced, kept,
                    nConcurrency, inputMax >>
    /\ UNCHANGED ctxVars

\* for(auto& e : futures) e.wait().
D_Drain ==
    /\ op = "decompress"
    /\ pc = "d_drain"
    /\ AllDone
    /\ pc' = "d_tail"
    /\ UNCHANGED << op, ret, msg, i, workers, futuresCap, srcAvail, dstAvail,
                    xxhStream, quit, cur, wlog, skipLog, marks, edit, raced, kept,
                    nConcurrency, inputMax >>
    /\ UNCHANGED ctxVars

\* The stream checksum after the blocks, then the next turn of the frame loop
\* (or the return after a break).
D_Tail ==
    /\ op = "decompress"
    /\ pc = "d_tail"
    /\ IF ~error /\ sd.flg.streamChecksum # 0
       THEN /\ nRead' = nRead + 1
            /\ IF Avail(pos) < 4
               THEN /\ result' = setResult(setResult(result, "ERROR"),
                                           "CANNOT_READ_STREAM_CHECKSUM")
                    /\ ret' = result'
                    /\ pos' = Len(din)
                    /\ eofFlag' = TRUE
                    /\ pc' = "returned"
               ELSE /\ pos' = pos + 4
                    /\ UNCHANGED eofFlag
                    /\ IF xxhStream # loadU32(ReadBytes(pos, 4))
                       THEN /\ result' = setResult(result, "STREAM_CHECKSUM_MISMATCH")
                            /\ ret' = result'
                            /\ pc' = "returned"
                       ELSE /\ pc' = "d_outer"
                            /\ UNCHANGED << result, ret >>
       ELSE /\ pc' = "d_outer"
            /\ UNCHANGED << result, ret, pos, eofFlag, nRead >>
    /\ UNCHANGED << op, mode, msg, sd, chunks, din, eofKind, out, wfails, nWrite, i,
                    workers, futuresCap, srcAvail, dstAvail, xxhStream, quit, cur,
                    wlog, skipLog, marks, edit, raced, kept, nConcurrency, inputMax >>

(***************************************************************************)
(* The worker f of lz4mtDecompress, for the block of slot k.               *)
(***************************************************************************)
\* Entry: a task that finds the latch not OK or quit set returns at once.
DW_Entry(k) ==
    /\ op = "decompress"
    /\ workers[k].pc = "start"
    /\ IF error \/ quit
       THEN Finish(k)
       ELSE /\ workers' = [workers EXCEPT
                              ![k].pc = IF workers[k].incompressible
                                        THEN "gate" ELSE "alloc"]
            /\ UNCHANGED << srcAvail, dstAvail >>
    /\ UNCHANGED << op, pc, ret, msg, i, futuresCap, xxhStream, quit, cur, wlog,
                    skipLog, marks, edit, raced, kept, nConcurrency, inputMax >>
    /\ UNCHANGED ctxVars

\* dstBufferPool.alloc() and ctx->decompress; a negative size sets quit.
DW_Decompress(k) ==
    /\ op = "decompress"
    /\ workers[k].pc = "alloc"
    /\ dstAvail > 0
    /\ dstAvail' = dstAvail - 1
    /\ IF CodecValid(workers[k].src, getBlockSize(sd.bd.blockMaximumSize))
       THEN /\ workers' = [workers EXCEPT ![k].pc = "gate", ![k].dst = TRUE,
                              ![k].data = CodecDecompress(workers[k].src)]
            /\ UNCHANGED quit
       ELSE /\ workers' = [workers EXCEPT ![k].pc = "fail_dec", ![k].dst = TRUE]
            /\ quit' = TRUE
    /\ UNCHANGED << op, pc, ret, msg, i, futuresCap, srcAvail, xxhStream, cur, wlog,
                    skipLog, marks, edit, raced, kept, nConcurrency, inputMax >>
    /\ UNCHANGED ctxVars

\* setResult of a worker that has set quit, and its return.
WorkerFail(k, failPc, code) ==
    /\ op = "decompress"
    /\ workers[k].pc = failPc
    /\ result' = setResult(result, code)
    /\ kept' = Kept(code)
    /\ Finish(k)
    /\ UNCHANGED << op, pc, mode, ret, msg, sd, chunks, din, pos, eofKind, eofFlag,
                    out, wfails, nRead, nWrite, i, futuresCap, xxhStream, quit, cur,
                    wlog, skipLog, marks, edit, raced, nConcurrency, inputMax >>

DW_FailDec(k) == WorkerFail(k, "fail_dec", "DECOMPRESS_FAIL")

DW_Gate(k) == op = "decompress" /\ Gate(k)

DW_StreamHash(k) == op = "decompress" /\ StreamHash(k)

\* writeBin(srcPtr, srcSize) of a raw block, writeBin(dstPtr, decSize) of a
\* decompressed one.
DW_WriteBin(k) ==
    /\ op = "decompress"
    /\ workers[k].pc = "write"
    /\ WorkerWrite(k, IF workers[k].incompressible
                      THEN workers[k].src ELSE workers[k].data, "join")

\* futureStreamHash.wait(), the release of the destination buffer, and the
\* comparison of the block hash with the stored one; a mismatch sets quit.
DW_Join(k) ==
    /\ op = "decompress"
    /\ workers[k].pc = "join"
    /\ HashReady(k)
    /\ xxhStream' = HashJoined(k)
    /\ IF sd.flg.blockChecksum # 0
          /\ Xxh32(workers[k].src, LZ4S_CHECKSUM_SEED) # workers[k].blockChecksum
       THEN /\ quit' = TRUE
            /\ workers' = [workers EXCEPT ![k].pc = "fail_hash", ![k].dst = FALSE,
                              ![k].hash = "none"]
            /\ dstAvail' = IF workers[k].dst THEN dstAvail + 1 ELSE dstAvail
            /\ UNCHANGED srcAvail
       ELSE /\ Finish(k)
            /\ UNCHANGED quit
    /\ UNCHANGED << op, pc, ret, msg, i, futuresCap, cur, wlog, skipLog, marks, edit,
                    raced, kept, nConcurrency, inputMax >>
    /\ UNCHANGED ctxVars

DW_FailHash(k) == WorkerFail(k, "fail_hash", "BLOCK_CHECKSUM_MISMATCH")

(***************************************************************************)
(* The caller.                                                             *)
(***************************************************************************)
\* The caller turns the returned code into text.
Report ==
    /\ pc = "returned"
    /\ msg' = lz4mtResultToString(ret)
    /\ pc' = "reported"
    /\ UNCHANGED << op, ret, i, workers, futuresCap, srcAvail, dstAvail, xxhStream,
                    quit, cur, wlog, skipLog, marks, edit, raced, kept,
                    nConcurrency, inputMax >>
    /\ UNCHANGED ctxVars

\* Two skippable frames: one with the lowest magic number and two bytes, one
\* with the highest and none.
SkipFrameA == storeU32(LZ4S_MAGICNUMBER_SKIPPABLE_MIN) \o storeU32(2) \o << 7, 9 >>
SkipFrameB == storeU32(LZ4S_MAGICNUMBER_SKIPPABLE_MAX) \o storeU32(0)

\* Streams made of the encoded frame F and of skippable frames.
Concatenations(F) ==
    << SkipFrameA \o F,
       F \o SkipFrameB,
       F \o F,
       SkipFrameB \o F \o SkipFrameA \o F >>

\* The skippable frames of each of these streams, in order.
ConcatSkips ==
    << << << LZ4S_MAGICNUMBER_SKIPPABLE_MIN, 2 >> >>,
       << << LZ4S_MAGICNUMBER_SKIPPABLE_MAX, 0 >> >>,
       << >>,
       << << LZ4S_MAGICNUMBER_SKIPPABLE_MAX, 0 >>,
          << LZ4S_MAGICNUMBER_SKIPPABLE_MIN, 2 >> >> >>

\* How many LZ4 frames each of these streams holds.
ConcatFrames == << 1, 1, 2, 2 >>

\* Fields the encoder writes for one block, and the blocks of its output.
FieldsPerBlock == IF sd.flg.blockChecksum # 0 THEN 3 ELSE 2
Blocks(ms) == (Len(ms) - 2) \div FieldsPerBlock

\* Number of block checksum fields in the encoder's output.
HashFields(ms) == IF sd.flg.blockChecksum # 0 THEN Blocks(ms) ELSE 0

\* The ways the caller makes a decoder input of the encoder's output F, whose
\* fields end at the offsets ms: as it is, with the lowest bit of the b-th
\* block checksum flipped, with the first stored byte of the b-th block set to
\* 0, with 2^24 added to the size field of the b-th block, cut after a field,
\* followed by the first n bytes of a magic number, or concatenated with other
\* frames.
Edits(F, ms) ==
    { << "none", 0 >> }
    \cup { << "flip", b >> : b \in 1..HashFields(ms) }
    \cup { << "corrupt", b >> : b \in 1..Blocks(ms) }
    \cup { << "oversize", b >> : b \in 1..Blocks(ms) }
    \cup { << "cut", m >> : m \in { x \in 1..Len(ms) : ms[x] < Len(F) } }
    \cup { << "tail", n >> : n \in 1..3 }
    \cup { << "cat", c >> : c \in 1..Len(Concatenations(F)) }

FlipAt(F, at) ==
    [F EXCEPT ![at] = IF F[at] % 2 = 0 THEN F[at] + 1 ELSE F[at] - 1]

Edited(F, ms, e) ==
    CASE e[1] = "none" -> F
      [] e[1] = "flip" -> FlipAt(F, ms[1 + 3 * e[2]] - 3)
      [] e[1] = "corrupt" ->
             [F EXCEPT ![ms[2 + FieldsPerBlock * (e[2] - 1)] + 1] = 0]
      [] e[1] = "oversize" ->
             LET at == ms[2 + FieldsPerBlock * (e[2] - 1)]
             IN  [F EXCEPT ![at] = F[at] + 1]
      [] e[1] = "cut"  -> Slice(F, 1, ms[e[2]])
      [] e[1] = "tail" -> F \o Slice(storeU32(LZ4S_MAGICNUMBER), 1, e[2])
      [] e[1] = "cat"  -> Concatenations(F)[e[2]]

\* The caller hands the encoder's output, edited or not, to lz4mtDecompress
\* with a context of its own.
Feed ==
    /\ op = "compress"
    /\ pc = "reported"
    /\ ret = "OK"
    /\ \E e \in Edits(out, marks), m \in Modes, kind \in { "atEnd", "feof" } :
          /\ edit' = e
          /\ mode' = m
          /\ eofKind' = kind
          /\ din' = Edited(out, marks, e)
    /\ op' = "decompress"
    /\ pc' = "d_start"
    /\ result' = "OK"
    /\ ret' = "none"
    /\ msg' = "none"
    /\ sd' = lz4mtInitStreamDescriptor
    /\ pos' = 0
    /\ eofFlag' = FALSE
    /\ out' = << >>
    /\ nRead' = 0
    /\ nWrite' = 0
    /\ i' = 0
    /\ workers' = << >>
    /\ futuresCap' = 0
    /\ xxhStream' = LZ4S_CHECKSUM_SEED
    /\ quit' = FALSE
    /\ cur' = NoCur
    /\ wlog' = << >>
    /\ kept' = << >>
    /\ UNCHANGED << chunks, wfails, srcAvail, dstAvail, skipLog, marks, raced,
                    nConcurrency, inputMax >>

Next ==
    \/ C_Header
    \/ C_Read
    \/ C_ReallocEnd
    \/ C_Drain
    \/ C_Eos
    \/ C_Tail
    \/ \E k \in Slots : CW_Entry(k)
    \/ \E k \in Slots : CW_Compress(k)
    \/ \E k \in Slots : CW_Gate(k)
    \/ \E k \in Slots : CW_StreamHash(k)
    \/ \E k \in Slots : CW_WriteSize(k)
    \/ \E k \in Slots : CW_WriteBin(k)
    \/ \E k \in Slots : CW_WriteHash(k)
    \/ \E k \in Slots : CW_Join(k)
    \/ D_Start
    \/ D_Frame
    \/ D_MagicShort
    \/ D_LoopTest
    \/ D_ReadSize
    \/ D_FailSize
    \/ D_ReadData
    \/ D_FailData
    \/ D_ReadChk
    \/ D_FailChk
    \/ D_ReallocEnd
    \/ D_Drain
    \/ D_Tail
    \/ \E k \in Slots : DW_Entry(k)
    \/ \E k \in Slots : DW_Decompress(k)
    \/ \E k \in Slots : DW_FailDec(k)
    \/ \E k \in Slots : DW_Gate(k)
    \/ \E k \in Slots : DW_StreamHash(k)
    \/ \E k \in Slots : DW_WriteBin(k)
    \/ \E k \in Slots : DW_Join(k)
    \/ \E k \in Slots : DW_FailHash(k)
    \/ Report
    \/ Feed

Spec == Init /\ [][Next]_vars

SpecWide == InitWide /\ [][Next]_vars

\* The thread of lz4mtCompress or lz4mtDecompress.
Producer ==
    \/ C_Header \/ C_Read \/ C_ReallocEnd \/ C_Drain \/ C_Eos \/ C_Tail
    \/ D_Start \/ D_Frame \/ D_MagicShort \/ D_LoopTest \/ D_ReadSize \/ D_FailSize
    \/ D_ReadData \/ D_FailData \/ D_ReadChk \/ D_FailChk \/ D_ReallocEnd
    \/ D_Drain \/ D_Tail

\* The task of slot k and the stream hash task it launches.
Worker(k) ==
    /\ k \in Slots
    /\ \/ CW_Entry(k) \/ CW_Compress(k) \/ CW_Gate(k) \/ CW_StreamHash(k)
       \/ CW_WriteSize(k) \/ CW_WriteBin(k) \/ CW_WriteHash(k) \/ CW_Join(k)
       \/ DW_Entry(k) \/ DW_Decompress(k) \/ DW_FailDec(k) \/ DW_Gate(k)
       \/ DW_StreamHash(k) \/ DW_WriteBin(k) \/ DW_Join(k) \/ DW_FailHash(k)

\* Every thread that can run is run: the calling thread, and the thread
\* std::async starts for each task (a frame has at most MaxInputLen blocks).
FairScheduling ==
    /\ WF_vars(Producer)
    /\ \A k \in 1..MaxInputLen : WF_vars(Worker(k))

\* Block and stream checksums on, either mode, threads scheduled fairly.
InitLive ==
    InitWith({ [lz4mtInitStreamDescriptor EXCEPT !.flg.blockChecksum = 1] },
             Modes, HardwareConcurrency, MaxInputLen)

SpecLive == InitLive /\ [][Next]_vars /\ FairScheduling

(***************************************************************************)
(* The frame lz4mtCompress writes when it handles its blocks one after the *)
(* other, as sequential mode does.                                         *)
(***************************************************************************)
\* The fields f writes for the block read as src: its size, its stored bytes
\* and, when desc asks for block checksums, their hash.
BlockBytes(src, desc) ==
    LET cmp == CodecCompress(src, Len(src))
        w == [ incompressible |-> Len(cmp) <= 0, src |-> src, data |-> cmp ]
    IN  storeU32(SizeField(w)) \o Stored(w)
        \o (IF desc.flg.blockChecksum # 0
            THEN storeU32(Xxh32(Stored(w), LZ4S_CHECKSUM_SEED)) ELSE << >>)

\* Header, blocks in the order they were read, end mark, stream checksum.
SequentialFrame(cs, desc) ==
    FrameHeader(desc)
    \o Flatten([n \in 1..Len(cs) |-> BlockBytes(cs[n], desc)])
    \o storeU32(LZ4S_EOS)
    \o (IF desc.flg.streamChecksum # 0
        THEN storeU32(Xxh32(Flatten(cs), LZ4S_CHECKSUM_SEED)) ELSE << >>)

\* A sequential lz4mtCompress that returns OK has written SequentialFrame.
SequentialFrameWritten ==
    (op = "compress" /\ pc = "returned" /\ mode = "SEQUENTIAL" /\ ret = "OK")
        => out = SequentialFrame(chunks, sd)

(***************************************************************************)
(* Properties.                                                             *)
(***************************************************************************)
\* A call has returned with every write callback call having taken its bytes.
Returned(call) == op = call /\ pc = "returned" /\ wfails = 0

\* The worker of slot k has called the write callback.
HasWritten(k) == \E a \in 1..Len(wlog) : wlog[a] = k

\* The decoder's input was made from the bytes of an encoder whose workers
\* all passed their wait on the previous future: one well-formed frame.
WellFormedFrame == "compress" \notin raced

\* s repeated n times.
Repeat(s, n) == Flatten([m \in 1..n |-> s])

\* Every wait on the previous future found that future, and every write
\* callback call took its bytes.
NoRaceNoShortWrite == raced = { } /\ wfails = 0

\* C1: in parallel mode the write calls made for the blocks of a frame come
\* in increasing block order: no block is written ahead of a lower-indexed
\* block that is written too.  Stated for the runs in which no worker met
\* the futures vector while it was reallocated.
C1_BlocksWrittenInOrder ==
    (mode = "PARALLEL" /\ NoRaceNoShortWrite)
        => \A a, b \in 1..Len(wlog) : a < b => wlog[a] <= wlog[b]

\* C2: with a valid descriptor and callbacks that all succeed, lz4mtDecompress
\* on the bytes lz4mtCompress wrote returns OK and writes the input of
\* lz4mtCompress, in either mode on either side.
C2_RoundTrip ==
    (Returned("decompress") /\ edit = << "none", 0 >>)
        => (ret = "OK" /\ out = Flatten(chunks))

\* C3: with a valid descriptor and callbacks that all succeed, parallel
\* lz4mtCompress writes, in every interleaving of its workers, the bytes
\* sequential lz4mtCompress writes for the same input and descriptor.
C3_ModeEquivalence ==
    (Returned("compress") /\ mode = "PARALLEL"
     /\ validateStreamDescriptor(sd) = "OK")
        => (ret = "OK" /\ out = SequentialFrame(chunks, sd))

\* C4: on a frame with block checksums in which one block's stored checksum
\* differs from the hash of its stored bytes and all else is valid,
\* lz4mtDecompress returns BLOCK_CHECKSUM_MISMATCH.
C4_BlockChecksumMismatchReported ==
    (Returned("decompress") /\ edit[1] = "flip" /\ WellFormedFrame)
        => ret = "BLOCK_CHECKSUM_MISMATCH"

\* C5: once the latch holds a code other than OK and ERROR, no later
\* setResult call, by the producer or by a worker, changes it.
C5_SpecificCodeStays ==
    [][(result \notin { "OK", "ERROR" }) => (result' = result)]_vars

\* A setResult call after quit = true found another, specific code latched,
\* and the latch still holds that code.
C5_LaterCodeRefused ==
    /\ op = "decompress"
    /\ Len(kept) = 2
    /\ result = kept[1]
    /\ kept[2] \notin { "OK", "ERROR", kept[1] }

\* The descriptors C6 names: a version other than 1, a reserved bit set, no
\* block independence, a preset dictionary, a block size id outside 4..7.
C6_Invalid(d) ==
    \/ d.flg.versionNumber # 1
    \/ d.flg.reserved1 # 0
    \/ d.bd.reserved2 # 0
    \/ d.bd.reserved3 # 0
    \/ d.flg.blockIndependence = 0
    \/ d.flg.presetDictionary = 1
    \/ d.bd.blockMaximumSize \notin 4..7

\* C6: lz4mtCompress on such a descriptor calls neither the read nor the
\* write callback, and the code it returns is not OK.
C6_InvalidDescriptorRejected ==
    (op = "compress" /\ C6_Invalid(sd))
        => /\ nWrite = 0
           /\ nRead = 0
           /\ out = << >>
           /\ pc \in { "returned", "reported" } => ret \notin { "OK", "none" }

\* lz4mtCompress has returned on a descriptor whose one fault is
\* bd.reserved3, without a callback call.
C6_Reserved3Rejected ==
    /\ op = "compress"
    /\ pc = "returned"
    /\ sd.bd.reserved3 # 0
    /\ validateStreamDescriptor([sd EXCEPT !.bd.reserved3 = 0]) = "OK"
    /\ ret = "INVALID_HEADER"
    /\ nWrite = 0
    /\ nRead = 0

\* C7: when the input of lz4mtDecompress ends where a magic number would
\* start the call returns OK; when it ends after one to three bytes of a
\* magic number the call returns INVALID_HEADER.
C7_MagicNumberAtEndOfInput ==
    (Returned("decompress") /\ raced = { })
        => /\ edit[1] = "none" => ret = "OK"
           /\ edit[1] = "tail" => ret = "INVALID_HEADER"

\* C8: on a stream of LZ4 frames and skippable frames lz4mtDecompress calls
\* readSkippable once for each skippable frame, in order, with its magic
\* number and length, and writes the payloads of the LZ4 frames and nothing
\* else.
C8_SkippableFramesPassedOver ==
    (Returned("decompress") /\ edit[1] = "cat" /\ WellFormedFrame)
        => /\ skipLog = ConcatSkips[edit[2]]
           /\ out = Repeat(Flatten(chunks), ConcatFrames[edit[2]])

\* C9: the text lz4mtResultToString gives for a code a call returned is the
\* text of that code, the code's name.
C9_EveryReturnedCodeHasItsText == pc = "reported" => msg = ret

\* C10: in parallel mode at most one worker is between its first and its
\* last write call, and a worker has called the write callback only when
\* every worker of a lower index has made all its write calls, or has
\* returned or failed with none left to make.
\* Stated for the runs in which no worker met the futures vector while it
\* was reallocated.
C10_WritesSerialized ==
    (mode = "PARALLEL" /\ NoRaceNoShortWrite)
        => /\ Cardinality({ k \in Slots : /\ HasWritten(k)
                                           /\ workers[k].pc \in { "wbin", "whash" } })
                  <= 1
           /\ \A k \in Slots :
                  HasWritten(k)
                      => \A j \in 1..(k - 1) :
                             workers[j].pc \in { "join", "fail_hash", "fail_dec",
                                                 "done" }

\* C11: in parallel mode at most one stream hash task is running, and while
\* a block's update is running or finished no worker of a lower index is
\* still waiting to start its own.  Stated for the runs in which no worker
\* met the futures vector while it was reallocated.
C11_StreamHashUpdatesOrdered ==
    (mode = "PARALLEL" /\ NoRaceNoShortWrite /\ sd.flg.streamChecksum # 0)
        => /\ Cardinality({ k \in Slots : workers[k].hash = "launched" }) <= 1
           /\ \A k \in Slots :
                  workers[k].hash \in { "launched", "done" }
                      => \A j \in 1..(k - 1) : workers[j].pc # "gate"

\* C12: the number of bytes lz4mtDecompress has asked the read callback to
\* store into a source buffer is at most the buffer's capacity.
C12_BlockReadFitsBuffer ==
    (op = "decompress" /\ pc \in { "d_fail_data", "d_chk" })
        => cur.srcSize <= getBlockSize(sd.bd.blockMaximumSize)

InBlockLoop ==
    /\ op = "decompress"
    /\ pc \in { "d_block", "d_size", "d_data", "d_chk", "d_realloc", "d_drain",
                "d_fail_size", "d_fail_data", "d_fail_chk" }

\* C14: while the blocks of a frame are decoded, a latch that is not OK comes
\* with the quit flag set: whoever latched the code has set quit.
C14_ErrorSetsQuit == (InBlockLoop /\ error) => quit

\* C15: once the latch is not OK, no step of a call invokes the read callback
\* again or dispatches another worker.
C15_NoDispatchAfterError ==
    [][(error /\ op' = op) => (nRead' = nRead /\ Len(workers') <= Len(workers))]_vars

\* C16: a decoder input that is a well-formed frame cut short after its
\* header or after a block field is not accepted: the call does not return OK.
C16_TruncatedFrameRefused ==
    (Returned("decompress") /\ edit[1] = "cut" /\ raced = { }) => ret # "OK"

\* C17: within a call the latch never goes from a code that is not OK back
\* to OK.
C17_LatchNeverBackToOk ==
    [][(error /\ op' = op) => result' # "OK"]_vars

ReadErrorCodes ==
    { "CANNOT_READ_BLOCK_SIZE", "CANNOT_READ_BLOCK_DATA", "CANNOT_READ_BLOCK_CHECKSUM" }

\* C18: lz4mtDecompress returns one of the block read error codes only when a
\* call of the read callback has stored fewer bytes than it was asked for.
C18_ReadErrorMeansShortRead ==
    (op = "decompress" /\ pc = "returned" /\ ret \in ReadErrorCodes) => eofFlag

\* C19: when a call has returned, the code it returned is the code in the
\* latch.
C19_ReturnedCodeIsTheLatch == pc = "returned" => ret = result

\* C20: once the producer has left its dispatch loop (it is about to write the
\* EOS mark or the stream checksum, to read the stream checksum, to go on to
\* the next frame, or has returned), every worker it dispatched has returned.
C20_DrainedBeforeTail ==
    pc \in { "c_eos", "c_tail", "d_tail", "d_outer", "d_magic", "returned", "reported" }
        => AllDone

\* A parallel lz4mtDecompress that left its block loop on quit with workers
\* dispatched, now past the drain.
C20_DrainedAfterQuit ==
    /\ op = "decompress"
    /\ mode = "PARALLEL"
    /\ pc = "d_tail"
    /\ quit
    /\ Len(workers) > 1

====
